---- MODULE Spec2Model ----
(***************************************************************************)
(* Inventory ledger store and valuation engine of Mercadofire              *)
(* (src/src/contexts/InventoryContext.tsx).                                *)
(*                                                                         *)
(* The provider holds three collections, categories, products and          *)
(* transactions, as arrays.  Every exported function is one synchronous    *)
(* call over the arrays of the current render; a call either returns or    *)
(* throws, and a throw happens before the setter is reached.               *)
(***************************************************************************)
EXTENDS Integers, Sequences, FiniteSets, TLC

VARIABLES categories, products, transactions, nextId, result

vars == <<categories, products, transactions, nextId, result>>

collections == <<categories, products, transactions>>

(***************************************************************************)
(* Bounds of the model.                                                    *)
(***************************************************************************)
MaxCategories == 2
MaxProducts == 2
MaxTransactions == 3
MaxQuantity == 2
MaxMinStock == 1

(***************************************************************************)
(* Identifiers.  uuidv4() returns an identifier that was never returned    *)
(* before; it is modelled as the next unused number of the collection,     *)
(* tagged with the collection.  An identifier generated for a call that    *)
(* throws is dropped with the call and is never stored.                    *)
(***************************************************************************)
uuidv4(kind) == <<kind, nextId[kind]>>

CategoryIds == {<<"category", n>> : n \in 1..MaxCategories}
ProductIds == {<<"product", n>> : n \in 1..MaxProducts}

Names == {"a", "b"}
Quantities == 1..MaxQuantity
MinStocks == 0..MaxMinStock

ErrCategoryInUse == "Cannot delete category that is in use by products"
ErrProductHasTransactions == "Cannot delete product that has transactions"
ErrNotEnoughStock == "Not enough stock for this transaction"

Returned(op) == [op |-> op, error |-> ""]
Threw(op, msg) == [op |-> op, error |-> msg]

(***************************************************************************)
(* Array helpers.  filter is SelectSeq, some is an existential over the    *)
(* positions, and the map of the two update functions replaces the         *)
(* elements that carry the id of the updated one.                          *)
(***************************************************************************)
replaceById(s, updated) ==
    [i \in 1..Len(s) |-> IF s[i].id = updated.id THEN updated ELSE s[i]]

(***************************************************************************)
(* getProductStock: filter by product, then reduce from 0, adding the      *)
(* quantity of an entry and subtracting the quantity of anything else.     *)
(***************************************************************************)
RECURSIVE reduceStock(_, _)
reduceStock(s, stock) ==
    IF s = <<>> THEN stock
    ELSE IF Head(s).type = "entry"
         THEN reduceStock(Tail(s), stock + Head(s).quantity)
         ELSE reduceStock(Tail(s), stock - Head(s).quantity)

stockOfAnyProduct(txs, productId) == reduceStock(txs, 0)

stockOf(txs, productId) ==
    reduceStock(SelectSeq(txs, LAMBDA t : t.productId = productId), 0)

getProductStock(productId) == stockOf(transactions, productId)

(***************************************************************************)
(* Category operations.                                                    *)
(***************************************************************************)
addCategory(name) ==
    /\ nextId["category"] <= MaxCategories
    /\ categories' = Append(categories, [id |-> uuidv4("category"), name |-> name])
    /\ nextId' = [nextId EXCEPT !["category"] = @ + 1]
    /\ result' = Returned("addCategory")
    /\ UNCHANGED <<products, transactions>>

updateCategory(updatedCategory) ==
    /\ categories' = replaceById(categories, updatedCategory)
    /\ result' = Returned("updateCategory")
    /\ UNCHANGED <<products, transactions, nextId>>

categoryInUse(id) == \E i \in 1..Len(products) : products[i].categoryId = id

deleteCategoryUnguarded(id) ==
    /\ categories' = SelectSeq(categories, LAMBDA cat : cat.id # id)
    /\ result' = Returned("deleteCategory")
    /\ UNCHANGED <<products, transactions, nextId>>

deleteCategory(id) ==
    IF categoryInUse(id)
    THEN /\ result' = Threw("deleteCategory", ErrCategoryInUse)
         /\ UNCHANGED <<categories, products, transactions, nextId>>
    ELSE /\ categories' = SelectSeq(categories, LAMBDA cat : cat.id # id)
         /\ result' = Returned("deleteCategory")
         /\ UNCHANGED <<products, transactions, nextId>>

(***************************************************************************)
(* Product operations.                                                     *)
(***************************************************************************)
addProduct(categoryId, minStock) ==
    /\ nextId["product"] <= MaxProducts
    /\ products' = Append(products, [id |-> uuidv4("product"),
                                     categoryId |-> categoryId,
                                     minStock |-> minStock])
    /\ nextId' = [nextId EXCEPT !["product"] = @ + 1]
    /\ result' = Returned("addProduct")
    /\ UNCHANGED <<categories, transactions>>

updateProduct(updatedProduct) ==
    /\ products' = replaceById(products, updatedProduct)
    /\ result' = Returned("updateProduct")
    /\ UNCHANGED <<categories, transactions, nextId>>

productHasTransactions(id) ==
    \E i \in 1..Len(transactions) : transactions[i].productId = id

deleteProductUnguarded(id) ==
    /\ products' = SelectSeq(products, LAMBDA prod : prod.id # id)
    /\ result' = Returned("deleteProduct")
    /\ UNCHANGED <<categories, transactions, nextId>>

deleteProduct(id) ==
    IF productHasTransactions(id)
    THEN /\ result' = Threw("deleteProduct", ErrProductHasTransactions)
         /\ UNCHANGED <<categories, products, transactions, nextId>>
    ELSE /\ products' = SelectSeq(products, LAMBDA prod : prod.id # id)
         /\ result' = Returned("deleteProduct")
         /\ UNCHANGED <<categories, transactions, nextId>>

(***************************************************************************)
(* addTransaction: an exit is validated against the current stock of its   *)
(* product; anything that passes is appended with a fresh id.              *)
(***************************************************************************)
Transaction(productId, type, quantity, unitCost, date) ==
    [productId |-> productId, type |-> type, quantity |-> quantity,
     unitCost |-> unitCost, date |-> date]

withId(transaction, id) ==
    [id |-> id, productId |-> transaction.productId, type |-> transaction.type,
     quantity |-> transaction.quantity, unitCost |-> transaction.unitCost,
     date |-> transaction.date]

rejectsExitStrict(transaction) ==
    /\ transaction.type = "exit"
    /\ getProductStock(transaction.productId) <= transaction.quantity

rejectsNothing(transaction) == FALSE

rejectsAnyType(transaction) ==
    getProductStock(transaction.productId) < transaction.quantity

rejects(transaction) ==
    /\ transaction.type = "exit"
    /\ getProductStock(transaction.productId) < transaction.quantity

addTransaction(transaction) ==
    /\ nextId["transaction"] <= MaxTransactions
    /\ IF rejects(transaction)
       THEN /\ result' = Threw("addTransaction", ErrNotEnoughStock)
            /\ UNCHANGED <<categories, products, transactions, nextId>>
       ELSE /\ transactions' =
                   Append(transactions, withId(transaction, uuidv4("transaction")))
            /\ nextId' = [nextId EXCEPT !["transaction"] = @ + 1]
            /\ result' = Returned("addTransaction")
            /\ UNCHANGED <<categories, products>>

(***************************************************************************)
(* The ledger store: every mutation, from an empty ledger.                 *)
(***************************************************************************)
Init ==
    /\ categories = <<>>
    /\ products = <<>>
    /\ transactions = <<>>
    /\ nextId = [category |-> 1, product |-> 1, transaction |-> 1]
    /\ result = Returned("init")

StoreTransactions ==
    {Transaction(p, ty, q, 1, 1) :
        p \in ProductIds, ty \in {"entry", "exit"}, q \in Quantities}

Next ==
    \/ \E name \in Names : addCategory(name)
    \/ \E id \in CategoryIds, name \in Names :
          updateCategory([id |-> id, name |-> name])
    \/ \E id \in CategoryIds : deleteCategory(id)
    \/ \E c \in CategoryIds, m \in MinStocks : addProduct(c, m)
    \/ \E id \in ProductIds, c \in CategoryIds, m \in MinStocks :
          updateProduct([id |-> id, categoryId |-> c, minStock |-> m])
    \/ \E id \in ProductIds : deleteProduct(id)
    \/ \E t \in StoreTransactions : addTransaction(t)

Spec == Init /\ [][Next]_vars

(***************************************************************************)
(* Dates.  A date is an ISO calendar-date string; new Date(s) turns it      *)
(* into an instant and getTime() into milliseconds since the epoch.  A     *)
(* date is modelled by its day number and the conversion by the number of  *)
(* milliseconds at the start of that day.                                  *)
(***************************************************************************)
getTime(date) == date * 86400000

(***************************************************************************)
(* Array.prototype.sort: a stable sort by a comparator, here as an         *)
(* insertion sort that places an element after every element that does    *)
(* not compare greater than it.                                            *)
(***************************************************************************)
byDateAscending(a, b) == getTime(a.date) - getTime(b.date)
byDateDescending(a, b) == getTime(b.date) - getTime(a.date)

compare(order, a, b) ==
    IF order = "byDateAscending" THEN byDateAscending(a, b)
    ELSE byDateDescending(a, b)

RECURSIVE insertSorted(_, _, _)
insertSorted(x, s, order) ==
    IF s = <<>> THEN <<x>>
    ELSE IF compare(order, Head(s), x) <= 0
         THEN <<Head(s)>> \o insertSorted(x, Tail(s), order)
         ELSE <<x>> \o s

RECURSIVE sort(_, _)
sort(s, order) ==
    IF s = <<>> THEN <<>>
    ELSE insertSorted(s[Len(s)], sort(SubSeq(s, 1, Len(s) - 1), order), order)

(***************************************************************************)
(* Exact fractions for the weighted average: a value is num/den with       *)
(* den > 0, in lowest terms.                                               *)
(***************************************************************************)
RECURSIVE gcd(_, _)
gcd(a, b) == IF b = 0 THEN a ELSE gcd(b, a % b)

abs(a) == IF a < 0 THEN -a ELSE a

Frac(n, d) ==
    LET sn == IF d < 0 THEN -n ELSE n
        sd == abs(d)
        g == gcd(abs(sn), sd)
    IN  [num |-> sn \div g, den |-> sd \div g]

FracOfInt(n) == [num |-> n, den |-> 1]
FracSub(a, b) == Frac(a.num * b.den - b.num * a.den, a.den * b.den)
FracTimesInt(a, k) == Frac(a.num * k, a.den)
FracOverInt(a, k) == Frac(a.num, a.den * k)

(***************************************************************************)
(* getProductTransactions: the stored transactions of the product dated    *)
(* inside [startDate, endDate], in storage order.                          *)
(***************************************************************************)
inWindowAnyProduct(txs, productId, startDate, endDate) ==
    SelectSeq(txs, LAMBDA t :
        /\ getTime(t.date) >= getTime(startDate)
        /\ getTime(t.date) <= getTime(endDate))

inWindowExclusiveEnd(txs, productId, startDate, endDate) ==
    SelectSeq(txs, LAMBDA t :
        /\ t.productId = productId
        /\ getTime(t.date) >= getTime(startDate)
        /\ getTime(t.date) < getTime(endDate))

inWindow(txs, productId, startDate, endDate) ==
    SelectSeq(txs, LAMBDA t :
        /\ t.productId = productId
        /\ getTime(t.date) >= getTime(startDate)
        /\ getTime(t.date) <= getTime(endDate))

getProductTransactions(productId, startDate, endDate) ==
    inWindow(transactions, productId, startDate, endDate)

(***************************************************************************)
(* The layer loops of PEPS and UEPS: one exit eats layers from the front   *)
(* of remainingEntries until its quantity is used up or no layer is left.  *)
(***************************************************************************)
RECURSIVE consume(_, _)
consume(remainingEntries, remainingExitQuantity) ==
    IF remainingExitQuantity > 0 /\ remainingEntries # <<>>
    THEN LET first == Head(remainingEntries)
         IN  IF first.quantity <= remainingExitQuantity
             THEN consume(Tail(remainingEntries),
                          remainingExitQuantity - first.quantity)
             ELSE consume(
                    <<[first EXCEPT !.quantity = @ - remainingExitQuantity]>>
                        \o Tail(remainingEntries), 0)
    ELSE remainingEntries

RECURSIVE processExits(_, _)
processExits(remainingEntries, exits) ==
    IF exits = <<>> THEN remainingEntries
    ELSE processExits(consume(remainingEntries, Head(exits).quantity), Tail(exits))

RECURSIVE sumQuantity(_)
sumQuantity(s) == IF s = <<>> THEN 0 ELSE Head(s).quantity + sumQuantity(Tail(s))

RECURSIVE sumValue(_)
sumValue(s) ==
    IF s = <<>> THEN 0
    ELSE Head(s).quantity * Head(s).unitCost + sumValue(Tail(s))

pepsQueueUnsorted(entries) == entries
pepsQueue(entries) == sort(entries, "byDateAscending")

uepsStackAscending(entries) == sort(entries, "byDateAscending")
uepsStack(entries) == sort(entries, "byDateDescending")

pepsRemainingEntries(entries, exits) ==
    processExits(pepsQueue(entries), sort(exits, "byDateAscending"))

uepsRemainingEntries(entries, exits) ==
    processExits(uepsStack(entries), sort(exits, "byDateAscending"))

(***************************************************************************)
(* The weighted average: the entries are pooled, then every exit that      *)
(* finds totalUnits > 0 takes its quantity out at the current average.     *)
(***************************************************************************)
RECURSIVE applyExits(_, _)
applyExitsAtExitCost(pool, exits) ==
    [totalUnits |-> pool.totalUnits - sumQuantity(exits),
     totalValue |-> FracSub(pool.totalValue, FracOfInt(sumValue(exits)))]

RECURSIVE applyExitsIfCovered(_, _)
applyExitsIfCovered(pool, exits) ==
    IF exits = <<>> THEN pool
    ELSE IF pool.totalUnits >= Head(exits).quantity
         THEN LET currentAverageCost ==
                      FracOverInt(pool.totalValue, pool.totalUnits)
              IN  applyExitsIfCovered(
                    [pool EXCEPT
                       !.totalValue = FracSub(@, FracTimesInt(currentAverageCost,
                                                              Head(exits).quantity)),
                       !.totalUnits = @ - Head(exits).quantity],
                    Tail(exits))
         ELSE applyExitsIfCovered(pool, Tail(exits))

applyExits(pool, exits) ==
    IF exits = <<>> THEN pool
    ELSE IF pool.totalUnits > 0
         THEN LET currentAverageCost ==
                      FracOverInt(pool.totalValue, pool.totalUnits)
              IN  applyExits(
                    [pool EXCEPT
                       !.totalValue = FracSub(@, FracTimesInt(currentAverageCost,
                                                              Head(exits).quantity)),
                       !.totalUnits = @ - Head(exits).quantity],
                    Tail(exits))
         ELSE applyExits(pool, Tail(exits))

weightedPool(entries, exits) ==
    applyExits([totalUnits |-> sumQuantity(entries),
                totalValue |-> FracOfInt(sumValue(entries))],
               exits)

(***************************************************************************)
(* calculateInventoryCost.  exits.sort(...) in the PEPS and UEPS branches  *)
(* sorts the exits array itself, the one that is returned; entries is      *)
(* copied before it is sorted.  The returned object has the five fields    *)
(* entries, exits, remainingStock, totalCost and averageCost.              *)
(***************************************************************************)
Methods == {"PEPS", "UEPS", "weighted"}

average(totalCost, remainingStock) ==
    IF remainingStock > 0 THEN FracOverInt(totalCost, remainingStock)
    ELSE FracOfInt(0)

layerReport(entries, exits, remainingEntries) ==
    [entries |-> entries,
     exits |-> exits,
     remainingStock |-> sumQuantity(remainingEntries),
     totalCost |-> FracOfInt(sumValue(remainingEntries)),
     averageCost |-> average(FracOfInt(sumValue(remainingEntries)),
                             sumQuantity(remainingEntries))]

costReport(txs, productId, method, startDate, endDate) ==
    LET filteredTransactions == inWindow(txs, productId, startDate, endDate)
        entries == SelectSeq(filteredTransactions, LAMBDA t : t.type = "entry")
        exits == SelectSeq(filteredTransactions, LAMBDA t : t.type = "exit")
    IN  CASE method = "PEPS" ->
               layerReport(entries, sort(exits, "byDateAscending"),
                           pepsRemainingEntries(entries, exits))
          [] method = "UEPS" ->
               layerReport(entries, sort(exits, "byDateAscending"),
                           uepsRemainingEntries(entries, exits))
          [] method = "weighted" ->
               LET pool == weightedPool(entries, exits)
               IN  [entries |-> entries,
                    exits |-> exits,
                    remainingStock |-> pool.totalUnits,
                    totalCost |-> pool.totalValue,
                    averageCost |-> average(pool.totalValue, pool.totalUnits)]

calculateInventoryCostSortingLedger(productId, method, startDate, endDate) ==
    /\ result' = [op |-> "calculateInventoryCost", error |-> "",
                  productId |-> productId, method |-> method,
                  startDate |-> startDate, endDate |-> endDate,
                  report |-> costReport(transactions, productId, method,
                                        startDate, endDate)]
    /\ transactions' = sort(transactions, "byDateAscending")
    /\ UNCHANGED <<categories, products, nextId>>

calculateInventoryCost(productId, method, startDate, endDate) ==
    /\ result' = [op |-> "calculateInventoryCost", error |-> "",
                  productId |-> productId, method |-> method,
                  startDate |-> startDate, endDate |-> endDate,
                  report |-> costReport(transactions, productId, method,
                                        startDate, endDate)]
    /\ UNCHANGED <<categories, products, transactions, nextId>>

(***************************************************************************)
(* The valuation engine: a ledger grown by addTransaction and reports over *)
(* every window.  The reported product moves the quantities, costs and     *)
(* dates of the worked example (10 and 15 units at 2 and 3 on days 1 to    *)
(* 3) and also leaves 5 units at a time, so that one layer can serve two   *)
(* exits; every other product moves one entry and one exit, which a        *)
(* report of the first product has to leave out.                           *)
(***************************************************************************)
ReportEntryQuantities == {10, 15}
ReportExitQuantities == {5, 15}
ReportCosts == {2, 3}
ReportDates == {1, 2, 3}

ReportedProduct == <<"product", 1>>

ReportTransactions ==
    {Transaction(ReportedProduct, "entry", q, c, d) :
        q \in ReportEntryQuantities, c \in ReportCosts, d \in ReportDates}
    \cup
    {Transaction(ReportedProduct, "exit", q, 0, d) :
        q \in ReportExitQuantities, d \in ReportDates}
    \cup
    {Transaction(p, "entry", 10, 3, 2) : p \in ProductIds \ {ReportedProduct}}
    \cup
    {Transaction(p, "exit", 10, 0, 2) : p \in ProductIds \ {ReportedProduct}}

NextValuation ==
    \/ \E t \in ReportTransactions : addTransaction(t)
    \/ \E p \in ProductIds, m \in Methods, s \in ReportDates, e \in ReportDates :
          calculateInventoryCost(p, m, s, e)

ValuationSpec == Init /\ [][NextValuation]_vars

(***************************************************************************)
(* Quantities of a ledger counted without the code's fold: the sum over    *)
(* the positions that hold a transaction of the product and of the type.   *)
(***************************************************************************)
RECURSIVE SumAt(_, _)
SumAt(txs, positions) ==
    IF positions = {} THEN 0
    ELSE LET i == CHOOSE i \in positions : TRUE
         IN  txs[i].quantity + SumAt(txs, positions \ {i})

QuantityOf(txs, productId, type) ==
    SumAt(txs, {i \in DOMAIN txs :
                  txs[i].productId = productId /\ txs[i].type = type})

NetQuantity(txs, productId) ==
    QuantityOf(txs, productId, "entry") - QuantityOf(txs, productId, "exit")

Permuted(txs, f) == [i \in DOMAIN txs |-> txs[f[i]]]

Range(s) == {s[i] : i \in DOMAIN s}

LastTransaction == transactions[Len(transactions)]

(***************************************************************************)
(* C1.  Stock non-negativity: from the empty ledger, whatever category,    *)
(* product and transaction calls are made with positive quantities,        *)
(* accepted or rejected, for every product id the entry quantities minus   *)
(* the exit quantities of the stored transactions are never below zero.    *)
(***************************************************************************)
StockNeverNegative ==
    \A p \in ProductIds :
        /\ QuantityOf(transactions, p, "entry")
              - QuantityOf(transactions, p, "exit") >= 0
        /\ \A n \in 0..Len(transactions) :
              NetQuantity(SubSeq(transactions, 1, n), p) >= 0

\* An exit has emptied a product and a later exit of it has been rejected.
StockEmptiedThenRejected ==
    /\ result = Threw("addTransaction", ErrNotEnoughStock)
    /\ \E p \in ProductIds :
          /\ QuantityOf(transactions, p, "exit") > 0
          /\ NetQuantity(transactions, p) = 0

(***************************************************************************)
(* C2.  Non-negativity guard: an addTransaction of an exit whose quantity  *)
(* exceeds getProductStock of its product throws the stock error and       *)
(* leaves the three collections as they were; an exit whose quantity is    *)
(* at most the stock, the stock itself included, returns and is appended.  *)
(***************************************************************************)
ExitGuard ==
    [][\A t \in StoreTransactions :
          (t.type = "exit" /\ addTransaction(t)) =>
              IF t.quantity > NetQuantity(transactions, t.productId)
              THEN /\ result'.error = ErrNotEnoughStock
                   /\ categories' = categories
                   /\ products' = products
                   /\ transactions' = transactions
              ELSE /\ result'.error = ""
                   /\ Len(transactions') = Len(transactions) + 1
                   /\ SubSeq(transactions', 1, Len(transactions)) = transactions
                   /\ LastTransaction'.productId = t.productId
                   /\ LastTransaction'.type = "exit"
                   /\ LastTransaction'.quantity = t.quantity
                   /\ categories' = categories
                   /\ products' = products]_vars

\* An exit of exactly the stock was appended, and the next exit was rejected.
ExactExitThenRejected ==
    /\ result = Threw("addTransaction", ErrNotEnoughStock)
    /\ transactions # <<>>
    /\ LastTransaction.type = "exit"
    /\ LastTransaction.quantity =
          NetQuantity(SubSeq(transactions, 1, Len(transactions) - 1),
                      LastTransaction.productId)

(***************************************************************************)
(* C3.  Stock conservation: for every product id getProductStock is the    *)
(* sum of the product's entry quantities minus the sum of its exit         *)
(* quantities, and it is the same for every permutation of the stored      *)
(* sequence.                                                               *)
(***************************************************************************)
StockConservation ==
    \A p \in ProductIds :
        /\ getProductStock(p) =
              QuantityOf(transactions, p, "entry")
                 - QuantityOf(transactions, p, "exit")
        /\ \A f \in Permutations(DOMAIN transactions) :
              stockOf(Permuted(transactions, f), p) = getProductStock(p)

\* Two products hold stock, one of them after an entry and an exit.
StockOfTwoProducts ==
    /\ Len(transactions) = MaxTransactions
    /\ \E p, q \in ProductIds :
          /\ p # q
          /\ getProductStock(p) > 0
          /\ getProductStock(q) > 0
          /\ QuantityOf(transactions, p, "exit") > 0

(***************************************************************************)
(* C8.  deleteCategory referential guard: deleteCategory(id) throws and    *)
(* changes no collection when some product has categoryId = id; otherwise  *)
(* it returns, removes exactly the category with that id, and leaves every *)
(* other category, every product and every transaction as it was.         *)
(***************************************************************************)
Without(s, id) == SelectSeq(s, LAMBDA x : x.id # id)

DeleteCategoryGuard ==
    [][\A id \in CategoryIds :
          deleteCategory(id) =>
              IF \E i \in DOMAIN products : products[i].categoryId = id
              THEN /\ result'.error = ErrCategoryInUse
                   /\ categories' = categories
                   /\ products' = products
                   /\ transactions' = transactions
              ELSE /\ result'.error = ""
                   /\ Range(categories') = {c \in Range(categories) : c.id # id}
                   /\ categories' = Without(categories, id)
                   /\ products' = products
                   /\ transactions' = transactions]_vars

\* A category in use was refused while another category was stored.
CategoryInUseRefused ==
    /\ result = Threw("deleteCategory", ErrCategoryInUse)
    /\ Len(categories) = 2
    /\ \E i \in DOMAIN products, j \in DOMAIN categories :
          products[i].categoryId = categories[j].id

(***************************************************************************)
(* C9.  deleteProduct referential guard: deleteProduct(id) throws and      *)
(* changes no collection when some transaction has productId = id;         *)
(* otherwise it returns, removes exactly the product with that id, and     *)
(* leaves every other product, every category and every transaction as it  *)
(* was.                                                                    *)
(***************************************************************************)
DeleteProductGuard ==
    [][\A id \in ProductIds :
          deleteProduct(id) =>
              IF \E i \in DOMAIN transactions : transactions[i].productId = id
              THEN /\ result'.error = ErrProductHasTransactions
                   /\ categories' = categories
                   /\ products' = products
                   /\ transactions' = transactions
              ELSE /\ result'.error = ""
                   /\ Range(products') = {x \in Range(products) : x.id # id}
                   /\ products' = Without(products, id)
                   /\ categories' = categories
                   /\ transactions' = transactions]_vars

\* A product with transactions was refused while another product was stored.
ProductWithTransactionsRefused ==
    /\ result = Threw("deleteProduct", ErrProductHasTransactions)
    /\ Len(products) = 2
    /\ \E i \in DOMAIN products, j \in DOMAIN transactions :
          transactions[j].productId = products[i].id

(***************************************************************************)
(* What a report is about, read off the ledger without the code's          *)
(* helpers: the in-window transactions of a type in storage order, that    *)
(* sequence ordered by date with ties left in storage order, and a layer   *)
(* sequence with its first n units taken away.                             *)
(***************************************************************************)
IsReport(method) ==
    /\ result.op = "calculateInventoryCost"
    /\ result.method = method

InWindowOf(txs, productId, startDate, endDate, type) ==
    SelectSeq(txs, LAMBDA t :
        /\ t.productId = productId
        /\ t.type = type
        /\ startDate <= t.date
        /\ t.date <= endDate)

ReportedEntries ==
    InWindowOf(transactions, result.productId, result.startDate, result.endDate,
               "entry")

ReportedExits ==
    InWindowOf(transactions, result.productId, result.startDate, result.endDate,
               "exit")

OrderedByDate(s, newestFirst) ==
    LET Before(i, j) ==
            \/ IF newestFirst THEN s[i].date > s[j].date ELSE s[i].date < s[j].date
            \/ s[i].date = s[j].date /\ i < j
        f == CHOOSE f \in Permutations(DOMAIN s) :
                \A i, j \in DOMAIN s : i < j => Before(f[i], f[j])
    IN  [i \in DOMAIN s |-> s[f[i]]]

Units(s) == SumAt(s, DOMAIN s)

RECURSIVE ValueAt(_, _)
ValueAt(s, positions) ==
    IF positions = {} THEN 0
    ELSE LET i == CHOOSE i \in positions : TRUE
         IN  s[i].quantity * s[i].unitCost + ValueAt(s, positions \ {i})

Value(s) == ValueAt(s, DOMAIN s)

Min(a, b) == IF a < b THEN a ELSE b
Max(a, b) == IF a > b THEN a ELSE b

\* What layer i of s keeps once the first n units of s are gone.
Kept(s, n, i) ==
    Max(0, Min(s[i].quantity, Units(SubSeq(s, 1, i)) - n))

WithoutFirstUnits(s, n) ==
    LET reduced == [i \in DOMAIN s |-> [s[i] EXCEPT !.quantity = Kept(s, n, i)]]
    IN  SelectSeq(reduced, LAMBDA layer : layer.quantity > 0)

ExpectedLayers(newestFirst) ==
    LET E == OrderedByDate(ReportedEntries, newestFirst)
    IN  WithoutFirstUnits(E, Min(Units(ReportedExits), Units(E)))

\* The worked example: 10 at 2 on day 1, 10 at 3 on day 2, 15 out on day 3.
ExampleTransactions ==
    {Transaction(ReportedProduct, "entry", 10, 2, 1),
     Transaction(ReportedProduct, "entry", 10, 3, 2),
     Transaction(ReportedProduct, "exit", 15, 0, 3)}

WithoutId(t) == Transaction(t.productId, t.type, t.quantity, t.unitCost, t.date)

ExampleReported ==
    /\ result.op = "calculateInventoryCost"
    /\ result.productId = ReportedProduct
    /\ result.startDate = 1
    /\ result.endDate = 3
    /\ Len(transactions) = 3
    /\ {WithoutId(transactions[i]) : i \in DOMAIN transactions} = ExampleTransactions

\* The same call on the ledger stored in another order.
ReportOfPermuted(f) ==
    costReport(Permuted(transactions, f), result.productId, result.method,
               result.startDate, result.endDate)

DistinctDates(s) == \A i, j \in DOMAIN s : i # j => s[i].date # s[j].date

(***************************************************************************)
(* C4.  FIFO valuation: a PEPS report leaves the in-window entries, taken  *)
(* oldest first, without their first min(X, total entry quantity) units,   *)
(* X being the in-window exit quantity; remainingStock and totalCost are   *)
(* the quantity and the quantity x unitCost of those layers, whatever the  *)
(* storage order.  The worked example gives 5 units worth 15.              *)
(***************************************************************************)
FifoValuation ==
    IsReport("PEPS") =>
        LET layers == ExpectedLayers(FALSE)
        IN  /\ pepsRemainingEntries(ReportedEntries, ReportedExits) = layers
            /\ result.report.remainingStock = Units(layers)
            /\ result.report.totalCost = [num |-> Value(layers), den |-> 1]
            /\ \A f \in Permutations(DOMAIN transactions) :
                  /\ ReportOfPermuted(f).remainingStock =
                        result.report.remainingStock
                  /\ DistinctDates(ReportedEntries) =>
                        ReportOfPermuted(f).totalCost = result.report.totalCost
            /\ ExampleReported =>
                  /\ result.report.remainingStock = 5
                  /\ result.report.totalCost = [num |-> 15, den |-> 1]

\* The example stored newest entry first and reported by PEPS: 5 units at 3.
FifoExampleOutOfOrder ==
    /\ IsReport("PEPS")
    /\ ExampleReported
    /\ transactions[1].date = 2
    /\ result.report.remainingStock = 5
    /\ result.report.totalCost.num = 15

(***************************************************************************)
(* C5.  LIFO valuation: a UEPS report leaves the in-window entries, taken  *)
(* newest first, without their first min(X, total entry quantity) units,   *)
(* so the oldest units survive; remainingStock and totalCost are the sums  *)
(* over those layers, whatever the storage order.  The worked example      *)
(* gives 5 units worth 10.                                                 *)
(***************************************************************************)
LifoValuation ==
    IsReport("UEPS") =>
        LET layers == ExpectedLayers(TRUE)
        IN  /\ uepsRemainingEntries(ReportedEntries, ReportedExits) = layers
            /\ result.report.remainingStock = Units(layers)
            /\ result.report.totalCost = [num |-> Value(layers), den |-> 1]
            /\ \A f \in Permutations(DOMAIN transactions) :
                  /\ ReportOfPermuted(f).remainingStock =
                        result.report.remainingStock
                  /\ DistinctDates(ReportedEntries) =>
                        ReportOfPermuted(f).totalCost = result.report.totalCost
            /\ ExampleReported =>
                  /\ result.report.remainingStock = 5
                  /\ result.report.totalCost = [num |-> 10, den |-> 1]

\* The example stored oldest entry first and reported by UEPS: 5 units at 2.
LifoExampleReported ==
    /\ IsReport("UEPS")
    /\ ExampleReported
    /\ transactions[1].date = 1
    /\ result.report.remainingStock = 5
    /\ result.report.totalCost.num = 10

(***************************************************************************)
(* C6.  Weighted-average arithmetic: when the in-window entries hold       *)
(* U > 0 units worth V and the in-window exits take S <= U units, a        *)
(* weighted report has remainingStock = U - S and                          *)
(* totalCost x U = (U - S) x V, every exit leaving at the pool average     *)
(* V / U, which the exits do not change.  The worked example gives 5       *)
(* units, totalCost 12.5 and averageCost 2.5.                              *)
(***************************************************************************)
WeightedArithmetic ==
    IsReport("weighted") =>
        LET U == Units(ReportedEntries)
            V == Value(ReportedEntries)
            S == Units(ReportedExits)
            report == result.report
        IN  /\ (U > 0 /\ S <= U) =>
                  /\ report.remainingStock = U - S
                  /\ report.totalCost.den > 0
                  /\ report.totalCost.num * U = (U - S) * V * report.totalCost.den
                  /\ S < U => report.averageCost.num * U = V * report.averageCost.den
            /\ ExampleReported =>
                  /\ report.remainingStock = 5
                  /\ report.totalCost = [num |-> 25, den |-> 2]
                  /\ report.averageCost = [num |-> 5, den |-> 2]

\* The example reported by the weighted method: 5 units worth 12.5.
WeightedExampleReported ==
    /\ IsReport("weighted")
    /\ ExampleReported
    /\ result.report.remainingStock = 5
    /\ result.report.totalCost = [num |-> 25, den |-> 2]

(***************************************************************************)
(* C7.  FIFO kardex: a PEPS report carries a kardex with one row per       *)
(* in-window transaction of the product, in chronological order, each row  *)
(* holding the balance of the FIFO layers right after its transaction.     *)
(***************************************************************************)
ReportedTransactions ==
    SelectSeq(transactions, LAMBDA t :
        /\ t.productId = result.productId
        /\ result.startDate <= t.date
        /\ t.date <= result.endDate)

BalanceAfter(chronological, n) ==
    LET done == SubSeq(chronological, 1, n)
        E == SelectSeq(done, LAMBDA t : t.type = "entry")
        X == SelectSeq(done, LAMBDA t : t.type = "exit")
    IN  Units(WithoutFirstUnits(E, Min(Units(X), Units(E))))

FifoKardex ==
    IsReport("PEPS") =>
        /\ "kardexData" \in DOMAIN result.report
        /\ LET rows == result.report.kardexData
               chronological == OrderedByDate(ReportedTransactions, FALSE)
           IN  /\ Len(rows) = Len(chronological)
               /\ \A i \in DOMAIN rows :
                     /\ rows[i].fecha = chronological[i].date
                     /\ rows[i].saldos.cantidad = BalanceAfter(chronological, i)

(***************************************************************************)
(* C10.  Zero-stock report: with any of the three methods, a report for a  *)
(* product id with no transaction inside the window returns no entries,    *)
(* no exits, remainingStock 0, totalCost 0 and averageCost 0, and does     *)
(* not throw.                                                              *)
(***************************************************************************)
NothingInWindow ==
    ~ \E i \in DOMAIN transactions :
          /\ transactions[i].productId = result.productId
          /\ result.startDate <= transactions[i].date
          /\ transactions[i].date <= result.endDate

ZeroStockReport ==
    (result.op = "calculateInventoryCost" /\ NothingInWindow) =>
        /\ result.error = ""
        /\ result.report = [entries |-> <<>>, exits |-> <<>>,
                            remainingStock |-> 0,
                            totalCost |-> [num |-> 0, den |-> 1],
                            averageCost |-> [num |-> 0, den |-> 1]]

\* A product whose transactions all lie outside a non-empty window, while
\* another product has a transaction inside it.
OutsideWindowReported ==
    /\ result.op = "calculateInventoryCost"
    /\ NothingInWindow
    /\ result.startDate <= result.endDate
    /\ \E i, j \in DOMAIN transactions :
          /\ transactions[i].productId = result.productId
          /\ transactions[j].productId # result.productId
          /\ result.startDate <= transactions[j].date
          /\ transactions[j].date <= result.endDate
    /\ result.report.remainingStock = 0

(***************************************************************************)
(* C11.  Report subsets are unsorted: with every method the entries and    *)
(* the exits of a report are the in-window transactions of the product of  *)
(* that type in storage order, not ordered by date.                        *)
(***************************************************************************)
ReportSubsetsInStorageOrder ==
    result.op = "calculateInventoryCost" =>
        /\ result.report.entries = ReportedEntries
        /\ result.report.exits = ReportedExits

(***************************************************************************)
(* The date filter called on its own: getProductTransactions returns an    *)
(* array and changes nothing.                                              *)
(***************************************************************************)
queryProductTransactions(productId, startDate, endDate) ==
    /\ result' = [op |-> "getProductTransactions", error |-> "",
                  productId |-> productId,
                  startDate |-> startDate, endDate |-> endDate,
                  value |-> getProductTransactions(productId, startDate, endDate)]
    /\ UNCHANGED <<categories, products, transactions, nextId>>

NextFilter ==
    \/ \E t \in ReportTransactions : addTransaction(t)
    \/ \E p \in ProductIds, s \in ReportDates, e \in ReportDates :
          queryProductTransactions(p, s, e)

FilterSpec == Init /\ [][NextFilter]_vars

(***************************************************************************)
(* C12.  The date filter is exact and inclusive: getProductTransactions    *)
(* returns exactly the stored transactions of the product dated from       *)
(* startDate to endDate, both bounds included, each once; the same call    *)
(* on the same ledger gives the same set and a wider interval a superset.  *)
(***************************************************************************)
DateFilterExact ==
    result.op = "getProductTransactions" =>
        LET p == result.productId
            s == result.startDate
            e == result.endDate
            returned == Range(result.value)
        IN  /\ returned \subseteq Range(transactions)
            /\ \A t \in Range(transactions) :
                  t \in returned <=>
                     (t.productId = p /\ s <= t.date /\ t.date <= e)
            /\ Len(result.value) = Cardinality(returned)
            /\ Range(getProductTransactions(p, s, e)) = returned
            /\ \A s2 \in ReportDates, e2 \in ReportDates :
                  (s2 <= s /\ e <= e2) =>
                      returned \subseteq Range(getProductTransactions(p, s2, e2))

\* A window from day 2 to day 3 over transactions of days 1, 2 and 3: the two
\* on the bounds are returned and the one before the window is not.
WindowBoundsReturned ==
    /\ result.op = "getProductTransactions"
    /\ result.startDate = 2
    /\ result.endDate = 3
    /\ Len(result.value) = 2
    /\ {t.date : t \in Range(result.value)} = {2, 3}
    /\ \E t \in Range(transactions) :
          t.productId = result.productId /\ t.date = 1

(***************************************************************************)
(* getLowStockProducts: the products whose stock is at most their          *)
(* minStock, in storage order.                                             *)
(***************************************************************************)
getLowStockProductsBelow ==
    SelectSeq(products, LAMBDA product :
        getProductStock(product.id) < product.minStock)

getLowStockProducts ==
    SelectSeq(products, LAMBDA product :
        getProductStock(product.id) <= product.minStock)

queryLowStockProducts ==
    /\ result' = [op |-> "getLowStockProducts", error |-> "",
                  value |-> getLowStockProducts]
    /\ UNCHANGED <<categories, products, transactions, nextId>>

NextLowStock ==
    \/ \E c \in CategoryIds, m \in MinStocks : addProduct(c, m)
    \/ \E id \in ProductIds, c \in CategoryIds, m \in MinStocks :
          updateProduct([id |-> id, categoryId |-> c, minStock |-> m])
    \/ \E id \in ProductIds : deleteProduct(id)
    \/ \E t \in StoreTransactions : addTransaction(t)
    \/ queryLowStockProducts

LowStockSpec == Init /\ [][NextLowStock]_vars

(***************************************************************************)
(* C13.  Low-stock boundary: getLowStockProducts returns exactly the       *)
(* stored products whose stock is at most their minStock; a product with   *)
(* stock = minStock is returned and one with stock = minStock + 1 is not.  *)
(***************************************************************************)
LowStockBoundary ==
    result.op = "getLowStockProducts" =>
        LET returned == Range(result.value)
        IN  /\ returned =
                  {x \in Range(products) :
                      NetQuantity(transactions, x.id) <= x.minStock}
            /\ Len(result.value) = Cardinality(returned)
            /\ \A x \in Range(products) :
                  /\ NetQuantity(transactions, x.id) = x.minStock
                        => x \in returned
                  /\ NetQuantity(transactions, x.id) = x.minStock + 1
                        => x \notin returned

\* One product sits on its threshold and is returned, another is one unit
\* above its threshold and is not.
OnAndAboveThreshold ==
    /\ result.op = "getLowStockProducts"
    /\ \E x, y \in Range(products) :
          /\ x.minStock > 0
          /\ NetQuantity(transactions, x.id) = x.minStock
          /\ x \in Range(result.value)
          /\ NetQuantity(transactions, y.id) = y.minStock + 1
          /\ y \notin Range(result.value)

(***************************************************************************)
(* The whole context: every mutation and every query of the provider's     *)
(* value.  A query returns its value and changes nothing.  The first       *)
(* product moves one or two units on day 1 or 2, so that the ledger can be *)
(* stored out of date order; every other product receives one unit on day  *)
(* 1.                                                                      *)
(***************************************************************************)
getCategoryStock(categoryId) ==
    LET categoryProducts ==
            SelectSeq(products, LAMBDA p : p.categoryId = categoryId)
    IN  [i \in 1..Len(categoryProducts) |->
            [productId |-> categoryProducts[i].id,
             stock |-> getProductStock(categoryProducts[i].id)]]

queryProductStock(productId) ==
    /\ result' = [op |-> "getProductStock", error |-> "",
                  value |-> getProductStock(productId)]
    /\ UNCHANGED <<categories, products, transactions, nextId>>

queryCategoryStock(categoryId) ==
    /\ result' = [op |-> "getCategoryStock", error |-> "",
                  value |-> getCategoryStock(categoryId)]
    /\ UNCHANGED <<categories, products, transactions, nextId>>

LedgerDates == {1, 2}

LedgerTransactions ==
    {Transaction(ReportedProduct, "entry", MaxQuantity, 1, d) : d \in LedgerDates}
    \cup
    {Transaction(ReportedProduct, "exit", 1, 1, d) : d \in LedgerDates}
    \cup
    {Transaction(p, "entry", 1, 1, 1) : p \in ProductIds \ {ReportedProduct}}

NextLedger ==
    \/ addCategory("a")
    \/ \E id \in CategoryIds : updateCategory([id |-> id, name |-> "b"])
    \/ \E id \in CategoryIds : deleteCategory(id)
    \/ addProduct(<<"category", 1>>, 0)
    \/ \E id \in ProductIds :
          updateProduct([id |-> id, categoryId |-> <<"category", 2>>,
                         minStock |-> MaxMinStock])
    \/ \E id \in ProductIds : deleteProduct(id)
    \/ \E t \in LedgerTransactions : addTransaction(t)
    \/ \E p \in ProductIds : queryProductStock(p)
    \/ \E c \in CategoryIds : queryCategoryStock(c)
    \/ queryLowStockProducts
    \/ \E p \in ProductIds, s \in LedgerDates :
          queryProductTransactions(p, s, 2)
    \/ \E p \in ProductIds, m \in Methods :
          calculateInventoryCost(p, m, 1, 2)

LedgerSpec == Init /\ [][NextLedger]_vars

IsPrefix(s, t) == Len(s) <= Len(t) /\ SubSeq(t, 1, Len(s)) = s

(***************************************************************************)
(* C14.  Append-only ledger: a step that is not a successful               *)
(* addTransaction leaves the stored transaction sequence identical         *)
(* (queries and reports included), and a successful addTransaction keeps   *)
(* the previous sequence as a prefix and adds exactly one transaction at   *)
(* the end; nothing stored is removed, edited or reordered.                *)
(***************************************************************************)
LedgerAppendOnly ==
    [][ /\ IsPrefix(transactions, transactions')
        /\ IF result'.op = "addTransaction" /\ result'.error = ""
           THEN Len(transactions') = Len(transactions) + 1
           ELSE transactions' = transactions ]_vars

\* A FIFO report has been returned with its exits in date order while the
\* ledger it was computed from still stores them out of date order.
ReportLeftLedgerOutOfOrder ==
    /\ result.op = "calculateInventoryCost"
    /\ result.method = "PEPS"
    /\ result.report.exits # <<>>
    /\ result.report.exits # ReportedExits
    /\ \E i, j \in DOMAIN transactions :
          i < j /\ transactions[i].date > transactions[j].date

(***************************************************************************)
(* C15.  Transaction-to-product referential integrity: every stored        *)
(* transaction's productId is the id of a product currently in the         *)
(* products collection.  addTransaction never looks at products, so an     *)
(* entry for an id that no product carries is stored.                      *)
(***************************************************************************)
TransactionsReferenceProducts ==
    \A t \in Range(transactions) :
        \E product \in Range(products) : product.id = t.productId

(***************************************************************************)
(* C16.  Product-to-category referential integrity: every stored           *)
(* product's categoryId is the id of a category currently in the           *)
(* categories collection.  addProduct and updateProduct never look at      *)
(* categories, so a product of a category that does not exist is stored.   *)
(***************************************************************************)
ProductsReferenceCategories ==
    \A product \in Range(products) :
        \E category \in Range(categories) : category.id = product.categoryId

(***************************************************************************)
(* The ledger under unchecked inputs: addTransaction takes a quantity and  *)
(* a unit cost of any sign, for a product that may or may not exist.       *)
(***************************************************************************)
SignedQuantities == (-1)..MaxQuantity
SignedCosts == {-1, 0, 1}

SignedTransactions ==
    {Transaction(p, ty, q, c, 1) :
        p \in ProductIds, ty \in {"entry", "exit"},
        q \in SignedQuantities, c \in SignedCosts}

NextSigned ==
    \/ addProduct(<<"category", 1>>, 0)
    \/ \E t \in SignedTransactions : addTransaction(t)

SignedSpec == Init /\ [][NextSigned]_vars

(***************************************************************************)
(* C17.  Entries are never rejected: a call of addTransaction with type    *)
(* entry returns and appends the transaction under an id that no stored    *)
(* transaction carries, whatever its quantity (positive, zero, negative),  *)
(* its unitCost and its productId; the stock guard is evaluated only for   *)
(* an exit, so a call that throws is the call of an exit whose quantity    *)
(* exceeds the stock.                                                      *)
(***************************************************************************)
EntriesNeverRejected ==
    [][ /\ \A t \in SignedTransactions :
              (t.type = "entry" /\ addTransaction(t)) =>
                  /\ result' = Returned("addTransaction")
                  /\ Len(transactions') = Len(transactions) + 1
                  /\ IsPrefix(transactions, transactions')
                  /\ WithoutId(transactions'[Len(transactions')]) = t
                  /\ \A x \in Range(transactions) :
                        x.id # transactions'[Len(transactions')].id
        /\ result'.error = ErrNotEnoughStock =>
              \E t \in SignedTransactions :
                  /\ t.type = "exit"
                  /\ getProductStock(t.productId) < t.quantity
                  /\ addTransaction(t) ]_vars

\* The ledger holds an entry of zero units, an entry of a negative number
\* of units and an entry for a product that does not exist, next to a
\* product that does.
UncheckedEntriesStored ==
    /\ result = Returned("addTransaction")
    /\ products # <<>>
    /\ \E t \in Range(transactions) : t.type = "entry" /\ t.quantity = 0
    /\ \E t \in Range(transactions) : t.type = "entry" /\ t.quantity < 0
    /\ \E t \in Range(transactions) :
          /\ t.type = "entry"
          /\ \A product \in Range(products) : product.id # t.productId

(***************************************************************************)
(* The weighted average over a window that leaves stock out: the ledger    *)
(* already holds one entry of the reported product on day 1, stored by an  *)
(* earlier addTransaction, and grows by entries and exits of that product  *)
(* on days 1 to 3.  A window that starts after day 1 pools less than the   *)
(* stock that the exits were allowed to take.                              *)
(***************************************************************************)
FundingEntries ==
    {Transaction(ReportedProduct, "entry", q, c, 1) :
        q \in ReportEntryQuantities, c \in ReportCosts}

InitFunded ==
    /\ categories = <<>>
    /\ products = <<>>
    /\ \E t \in FundingEntries :
          transactions = <<withId(t, <<"transaction", 0>>)>>
    /\ nextId = [category |-> 1, product |-> 1, transaction |-> 1]
    /\ result = Returned("addTransaction")

WeightedTransactions ==
    {Transaction(ReportedProduct, "entry", q, c, d) :
        q \in ReportEntryQuantities, c \in ReportCosts, d \in ReportDates}
    \cup
    {Transaction(ReportedProduct, "exit", q, 0, d) :
        q \in ReportExitQuantities, d \in ReportDates}

NextWeighted ==
    \/ \E t \in WeightedTransactions : addTransaction(t)
    \/ \E p \in ProductIds, s \in ReportDates, e \in ReportDates :
          calculateInventoryCost(p, "weighted", s, e)

WeightedSpec == InitFunded /\ [][NextWeighted]_vars

(***************************************************************************)
(* C18.  Weighted-average exit skipping: the weighted method applies the   *)
(* in-window exits in ledger order.  With U units worth V pooled from the  *)
(* in-window entries, the exit at position k is applied exactly when the   *)
(* exits before it have left more than zero units, and is then taken out   *)
(* in full at the pool average, even beyond zero: remainingStock is U      *)
(* minus the applied exits (negative when the last applied exit exceeds    *)
(* what was left) and totalCost x U = V x remainingStock.  An exit that    *)
(* finds zero units or fewer changes nothing, and the call returns.        *)
(***************************************************************************)
WeightedExitSkipping ==
    IsReport("weighted") =>
        LET exits == ReportedExits
            U == Units(ReportedEntries)
            V == Value(ReportedEntries)
            Applied == {k \in DOMAIN exits : U - SumAt(exits, 1..(k - 1)) > 0}
            report == result.report
        IN  /\ result.error = ""
            /\ report.exits = exits
            /\ report.remainingStock = U - SumAt(exits, Applied)
            /\ report.totalCost.den > 0
            /\ U > 0 => report.totalCost.num * U =
                            V * report.remainingStock * report.totalCost.den
            /\ U <= 0 => /\ report.remainingStock = U
                         /\ report.totalCost = FracOfInt(V)
            /\ report.remainingStock <= 0 => report.averageCost = FracOfInt(0)

\* An exit larger than the pooled units has been applied in full, leaving a
\* negative remainingStock, and the exit stored after it has been skipped.
ExitSkippedAfterOverdraw ==
    /\ IsReport("weighted")
    /\ Units(ReportedEntries) > 0
    /\ Len(ReportedExits) >= 2
    /\ result.report.remainingStock < 0
    /\ result.report.totalCost.num < 0
    /\ result.report.remainingStock >
          Units(ReportedEntries) - Units(ReportedExits)

FullWindow ==
    \A t \in Range(transactions) :
        t.productId = result.productId =>
            result.startDate <= t.date /\ t.date <= result.endDate

(***************************************************************************)
(* C19.  Report agrees with the stock query on a full window: on a ledger  *)
(* grown from empty by addTransaction with positive quantities, a report   *)
(* whose window contains the dates of all the product's transactions has   *)
(* remainingStock = getProductStock(product), for PEPS, UEPS and weighted  *)
(* alike; the three methods agree and the weighted method skips no exit.   *)
(***************************************************************************)
ReportAgreesWithStock ==
    (result.op = "calculateInventoryCost" /\ FullWindow) =>
        /\ result.report.remainingStock = getProductStock(result.productId)
        /\ result.report.remainingStock =
              NetQuantity(transactions, result.productId)
        /\ \A method \in Methods :
              costReport(transactions, result.productId, method,
                         result.startDate, result.endDate).remainingStock
                  = getProductStock(result.productId)
        /\ result.method = "weighted" =>
              result.report.remainingStock =
                  Units(ReportedEntries) - Units(ReportedExits)

\* A weighted report over a window that holds the whole history of the
\* product, two exits included, with stock left.
FullWindowReported ==
    /\ IsReport("weighted")
    /\ FullWindow
    /\ Len(ReportedExits) = 2
    /\ result.report.remainingStock > 0
    /\ result.report.remainingStock = getProductStock(result.productId)

====
